---- MODULE Spec2Model ----
(***************************************************************************)
(* A model of DIContainer (src/index.ts, lines 1-136): the instance cache, *)
(* the provider registry, add / provide / construct, and ConstructionError.*)
(* construct is synchronous and runs to completion, so it is one action;   *)
(* the action computes the whole recursive resolution and records the      *)
(* sequence of events it went through in the variable trace.               *)
(*                                                                         *)
(* src/index.ts also carries an earlier revision of the class (lines       *)
(* 138-232: `register` instead of `add`, no providers); the model follows  *)
(* the current revision.                                                   *)
(*                                                                         *)
(* Constructors and providers are caller code: here each one either        *)
(* returns a value or throws, and does not call back into the container.   *)
(*                                                                         *)
(* Specifications: Spec (acyclic class graphs), SpecCycle (graphs with a   *)
(* dependency cycle), SpecPlain (keys that are no classes), SpecError      *)
(* (ConstructionError as a function of its arguments), and SpecStep /      *)
(* SpecStepFair, which follow construct statement by statement for two     *)
(* callers, run to completion or interleaved.                              *)
(***************************************************************************)
EXTENDS Integers, Sequences, FiniteSets, TLC

\* ------------------------------------------------------------------ bounds
\* number of API calls made on the container in one behaviour
MaxOps == 3
\* depth of nested construct calls the engine's stack allows
MaxDepth == 5

\* ------------------------------------------------------------------- keys
\* Three injectable classes, and one symbol used as a key.
Classes == {"A", "B", "C"}
Symbols == {"Sym"}
Keys == Classes \cup Symbols

\* `x === null || x === undefined`
IsNullish(x) == x \in {"null", "undefined"}

\* `x.name !== undefined`: classes (functions) expose a name, symbols do not
HasName(x) == x \in Classes

\* `x.toString()`: a symbol gives its description, a class its source text,
\* a plain object the default of Object.prototype
toString(x) ==
    IF x \in Symbols THEN "Symbol(test)"
    ELSE IF x \in Classes THEN "class " \o x \o " {}"
    ELSE "[object Object]"

\* the reference without the name: the string form of every key
ReferenceStringOnly(x) == IF IsNullish(x) THEN x ELSE toString(x)

\* the reference computed in ConstructionError's constructor
Reference(x) ==
    IF IsNullish(x) THEN x
    ELSE IF HasName(x) THEN x
    ELSE toString(x)

\* ----------------------------------------------------------------- values
\* Every JavaScript value the model handles has the same record shape.
\* id is the identity of an object (0 for primitives).
Value(kind, of, id, args) == [kind |-> kind, of |-> of, id |-> id, args |-> args]

Undefined == Value("undefined", "", 0, <<>>)
HelloWorld == Value("string", "hello, world", 0, <<>>)

\* values a caller hands to add(): something built outside the container
AddValues == {Value("string", "prebuilt", 0, <<>>), Undefined}

\* provider functions a caller hands to provide():
\*   "hello"  () => 'hello, world'      "undef"  () => undefined
\*   "fresh"  () => ({})  (a new object on every invocation)
ProviderFns == {"hello", "undef", "fresh"}

\* errors: type, message and an optional cause (a sequence of length <= 1)
Err(type, message, cause) == [type |-> type, message |-> message, cause |-> cause]

\* what user code (a constructor or a provider of key k) throws when it fails
UserError(k) == Err("Error", "thrown by " \o k, <<>>)

\* `new object(...)` on something that is not a constructor
NotAConstructor == Err("TypeError", "object is not a constructor", <<>>)

\* `object.dependencies` read from null or undefined
NullProperty == Err("TypeError", "Cannot read properties of null or undefined", <<>>)

\* the engine's stack is exhausted
StackOverflow == Err("RangeError", "Maximum call stack size exceeded", <<>>)

\* class ConstructionError extends Error
ConstructionError(x, cause) ==
    Err("ConstructionError", "Error constructing " \o Reference(x), <<cause>>)

\* ------------------------------------------------------- dependency graphs
\* static dependencies() of each class: declared says whether the class has
\* the method at all, keys is what it returns.
Deps(declared, keys) == [declared |-> declared, keys |-> keys]

\* the classes of the tests: NoDependencies has no dependencies method,
\* HasDefaults declares [], DefaultsAndDependencies declares both
GraphTests ==
    [k \in Classes |->
        CASE k = "A" -> Deps(FALSE, <<>>)
          [] k = "B" -> Deps(TRUE, <<>>)
          [] k = "C" -> Deps(TRUE, <<"A", "B">>)]

\* the same with B declaring [A], so that A is reached twice from C
GraphExample ==
    [k \in Classes |->
        CASE k = "A" -> Deps(FALSE, <<>>)
          [] k = "B" -> Deps(TRUE, <<"A">>)
          [] k = "C" -> Deps(TRUE, <<"A", "B">>)]

\* a chain of depth three that reaches A twice and depends on a symbol
GraphChain ==
    [k \in Classes |->
        CASE k = "A" -> Deps(TRUE, <<"Sym">>)
          [] k = "B" -> Deps(TRUE, <<"A", "A">>)
          [] k = "C" -> Deps(TRUE, <<"B", "A">>)]

Graphs == {GraphTests, GraphExample, GraphChain}

VARIABLES
    deps,        \* the classes' declared dependencies (fixed at start)
    instances,   \* DIContainer.instances : Map key -> value
    providers,   \* DIContainer.providers : Map key -> provider function
    nextId,      \* identity of the next object created
    last,        \* the last API call and its outcome
    trace,       \* the events of the last construct call, in order
    ops,         \* number of API calls made
    built,       \* history: per key, the instances its constructor produced
    fired,       \* history: per key, the outcomes of the provider invocations
                 \*   since the key's latest provide()
    delivered,   \* history: per key, the values handed out for it since the
                 \*   key's latest add()
    registered   \* history: per key, the value of its latest add(), if any

\* The calls of construct that are under way when construct is followed
\* statement by statement (specification SpecStep); the specifications in
\* which a call is one step leave these three as they start.
VARIABLES
    calls,       \* per caller: the stack of construct frames and the result
    mode,        \* "atomic": a call runs to completion; "preempt": the
                 \* statements of two calls may interleave
    writes       \* history: per key, the values stored by construct, in order

stepVars == <<calls, mode, writes>>

vars == <<deps, instances, providers, nextId, last, trace, ops,
          built, fired, delivered, registered, calls, mode, writes>>

\* ------------------------------------------------------------------- Map
EmptyMap == [x \in {} |-> Undefined]
Has(m, k) == k \in DOMAIN m
Get(m, k) == IF k \in DOMAIN m THEN m[k] ELSE Undefined
Set(m, k, v) == [x \in DOMAIN m \cup {k} |-> IF x = k THEN v ELSE m[x]]
Delete(m, k) == [x \in DOMAIN m \ {k} |-> m[x]]

\* ----------------------------------------------------------------- events
\* ev:  "enter"     construct(key) was called by parent at depth
\*      "hit"       the cache had key, out = <<cached value>>
\*      "provider"  key's provider returned out[1]
\*      "providerThrow"  key's provider threw out[1]
\*      "new"       key's constructor ran with args and produced out[1]
\*      "newThrow"  `new key(...args)` threw out[1]
\*      "return"    construct(key) returned out[1]
\*      "throw"     construct(key) threw out[1]
Ev(ev, key, parent, depth, args, out) ==
    [ev |-> ev, key |-> key, parent |-> parent, depth |-> depth,
     args |-> args, out |-> out]

\* the container while a call runs: both maps, the identity counter, the events
Emit(st, e) == [st EXCEPT !.log = Append(@, e)]

\* an add that keeps an entry that is already there
addIfAbsent(st, key, value) ==
    IF Has(st.instances, key) THEN st ELSE [st EXCEPT !.instances = Set(@, key, value)]

\* DIContainer.add, on the running state
add(st, key, value) == [st EXCEPT !.instances = Set(@, key, value)]

\* DIContainer.provide, on the running state
provide(st, key, value) == [st EXCEPT !.providers = Set(@, key, value)]

\* the value a provider function produces when invoked
Invoke(fn, id) ==
    CASE fn = "hello" -> HelloWorld
      [] fn = "undef" -> Undefined
      [] fn = "fresh" -> Value("object", "", id, <<>>)

\* outcome of an operation: ok with a value in out, or not ok with the error
Outcome(st, ok, out) == [st |-> st, ok |-> ok, out |-> out]

\* constructViaProvider without the `this.add(key, instance)`
constructViaProviderNoAdd(key, st, depth, parent, bad) ==
    IF key = bad
    THEN Outcome(Emit(st, Ev("providerThrow", key, parent, depth, <<>>, <<UserError(key)>>)),
                 FALSE, UserError(key))
    ELSE LET fn == Get(st.providers, key)
             instance == Invoke(fn, st.nextId)
             s1 == [st EXCEPT !.nextId = IF fn = "fresh" THEN @ + 1 ELSE @]
         IN Outcome(Emit(s1, Ev("provider", key, parent, depth, <<>>, <<instance>>)),
                    TRUE, instance)

\* constructViaProvider dropping the provider once it has fired
constructViaProviderOnce(key, st, depth, parent, bad) ==
    IF key = bad
    THEN Outcome(Emit(st, Ev("providerThrow", key, parent, depth, <<>>, <<UserError(key)>>)),
                 FALSE, UserError(key))
    ELSE LET fn == Get(st.providers, key)
             instance == Invoke(fn, st.nextId)
             s1 == [st EXCEPT !.nextId = IF fn = "fresh" THEN @ + 1 ELSE @,
                              !.providers = Delete(@, key)]
             s2 == Emit(s1, Ev("provider", key, parent, depth, <<>>, <<instance>>))
         IN Outcome(add(s2, key, instance), TRUE, instance)

\* DIContainer.constructViaProvider
constructViaProvider(key, st, depth, parent, bad) ==
    IF key = bad
    THEN Outcome(Emit(st, Ev("providerThrow", key, parent, depth, <<>>, <<UserError(key)>>)),
                 FALSE, UserError(key))
    ELSE LET fn == Get(st.providers, key)
             instance == Invoke(fn, st.nextId)
             s1 == [st EXCEPT !.nextId = IF fn = "fresh" THEN @ + 1 ELSE @]
             s2 == Emit(s1, Ev("provider", key, parent, depth, <<>>, <<instance>>))
         IN Outcome(add(s2, key, instance), TRUE, instance)

\* `new object(...dependencies)`
New(object, dependencies, st, depth, parent, bad) ==
    IF object \notin Classes
    THEN Outcome(Emit(st, Ev("newThrow", object, parent, depth, dependencies, <<NotAConstructor>>)),
                 FALSE, NotAConstructor)
    ELSE IF object = bad
    THEN Outcome(Emit(st, Ev("newThrow", object, parent, depth, dependencies, <<UserError(object)>>)),
                 FALSE, UserError(object))
    ELSE LET instance == Value("instance", object, st.nextId, dependencies)
             s1 == [st EXCEPT !.nextId = @ + 1]
         IN Outcome(Emit(s1, Ev("new", object, parent, depth, dependencies, <<instance>>)),
                    TRUE, instance)

\* `object.dependencies ? object.dependencies() : []`
DeclaredDependencies(object, graph) ==
    IF object \in Classes /\ graph[object].declared THEN graph[object].keys ELSE <<>>

RECURSIVE construct(_, _, _, _, _, _)
RECURSIVE mapConstruct(_, _, _, _, _, _, _, _)

\* `.map((x) => this.construct(x))` from index i on: left to right, the
\* first construct that throws ends the map
mapConstruct(ds, i, acc, st, depth, object, bad, graph) ==
    IF i > Len(ds) THEN Outcome(st, TRUE, acc)
    ELSE IF depth + 1 > MaxDepth THEN Outcome(st, FALSE, StackOverflow)
    ELSE LET r == construct(ds[i], st, depth + 1, object, bad, graph)
         IN IF r.ok
            THEN mapConstruct(ds, i + 1, Append(acc, r.out), r.st, depth, object, bad, graph)
            ELSE r

Reverse(s) == [i \in 1..Len(s) |-> s[Len(s) + 1 - i]]

\* constructViaDependencies handing the resolved values over back to front
constructViaDependenciesReversed(object, st, depth, parent, bad, graph) ==
    LET ds == mapConstruct(DeclaredDependencies(object, graph), 1, <<>>, st,
                           depth, object, bad, graph)
    IN IF ~ds.ok THEN ds
       ELSE LET n == New(object, Reverse(ds.out), ds.st, depth, parent, bad)
            IN IF ~n.ok THEN n
               ELSE Outcome(add(n.st, object, n.out), TRUE, n.out)

\* constructViaDependencies without the `this.add(object, instance)`
constructViaDependenciesNoAdd(object, st, depth, parent, bad, graph) ==
    LET ds == mapConstruct(DeclaredDependencies(object, graph), 1, <<>>, st,
                           depth, object, bad, graph)
    IN IF ~ds.ok THEN ds
       ELSE New(object, ds.out, ds.st, depth, parent, bad)

\* constructViaDependencies that stores a placeholder for the key before it
\* resolves the dependencies, which ends a cycle at its second visit
constructViaDependenciesPlaceholder(object, st, depth, parent, bad, graph) ==
    LET ds == mapConstruct(DeclaredDependencies(object, graph), 1, <<>>,
                           add(st, object, Undefined), depth, object, bad, graph)
    IN IF IsNullish(object) THEN Outcome(st, FALSE, NullProperty)
       ELSE IF ~ds.ok THEN ds
       ELSE LET n == New(object, ds.out, ds.st, depth, parent, bad)
            IN IF ~n.ok THEN n
               ELSE Outcome(add(n.st, object, n.out), TRUE, n.out)

\* DIContainer.constructViaDependencies
constructViaDependencies(object, st, depth, parent, bad, graph) ==
    LET ds == mapConstruct(DeclaredDependencies(object, graph), 1, <<>>, st,
                           depth, object, bad, graph)
    IN IF IsNullish(object) THEN Outcome(st, FALSE, NullProperty)
       ELSE IF ~ds.ok THEN ds
       ELSE LET n == New(object, ds.out, ds.st, depth, parent, bad)
            IN IF ~n.ok THEN n
               ELSE Outcome(add(n.st, object, n.out), TRUE, n.out)

\* Resolve with the registry consulted before the cache
ResolveProviderFirst(object, st, depth, parent, bad, graph) ==
    IF Has(st.providers, object)
    THEN constructViaProvider(object, st, depth, parent, bad)
    ELSE IF Has(st.instances, object)
    THEN Outcome(Emit(st, Ev("hit", object, parent, depth, <<>>, <<Get(st.instances, object)>>)),
                 TRUE, Get(st.instances, object))
    ELSE constructViaDependencies(object, st, depth, parent, bad, graph)

\* Resolve with the cache tested by the stored value,
\* `this.instances.get(object) !== undefined`, instead of `has`
ResolveTruthy(object, st, depth, parent, bad, graph) ==
    IF Get(st.instances, object) # Undefined
    THEN Outcome(Emit(st, Ev("hit", object, parent, depth, <<>>, <<Get(st.instances, object)>>)),
                 TRUE, Get(st.instances, object))
    ELSE IF Has(st.providers, object)
    THEN constructViaProvider(object, st, depth, parent, bad)
    ELSE constructViaDependencies(object, st, depth, parent, bad, graph)

\* Resolve with a provider used only for keys that cannot be constructed
ResolveDefaultFirst(object, st, depth, parent, bad, graph) ==
    IF Has(st.instances, object)
    THEN Outcome(Emit(st, Ev("hit", object, parent, depth, <<>>, <<Get(st.instances, object)>>)),
                 TRUE, Get(st.instances, object))
    ELSE IF object \in Classes
    THEN constructViaDependencies(object, st, depth, parent, bad, graph)
    ELSE IF Has(st.providers, object)
    THEN constructViaProvider(object, st, depth, parent, bad)
    ELSE constructViaDependencies(object, st, depth, parent, bad, graph)

\* the body of the try block of DIContainer.construct
Resolve(object, st, depth, parent, bad, graph) ==
    IF Has(st.instances, object)
    THEN Outcome(Emit(st, Ev("hit", object, parent, depth, <<>>, <<Get(st.instances, object)>>)),
                 TRUE, Get(st.instances, object))
    ELSE IF Has(st.providers, object)
    THEN constructViaProvider(object, st, depth, parent, bad)
    ELSE constructViaDependencies(object, st, depth, parent, bad, graph)

\* a catch that empties the cache before it throws
CatchClear(object, r, depth, parent) ==
    IF r.ok
    THEN Outcome(Emit(r.st, Ev("return", object, parent, depth, <<>>, <<r.out>>)), TRUE, r.out)
    ELSE LET e == ConstructionError(object, r.out)
             s1 == [r.st EXCEPT !.instances = EmptyMap]
         IN Outcome(Emit(s1, Ev("throw", object, parent, depth, <<>>, <<e>>)), FALSE, e)

\* a catch that remembers the failure: it stores the error under the key
CatchRemember(object, r, depth, parent) ==
    IF r.ok
    THEN Outcome(Emit(r.st, Ev("return", object, parent, depth, <<>>, <<r.out>>)), TRUE, r.out)
    ELSE LET e == ConstructionError(object, r.out)
             s1 == add(r.st, object, Undefined)
         IN Outcome(Emit(s1, Ev("throw", object, parent, depth, <<>>, <<e>>)), FALSE, e)

\* a catch that swallows the error: `catch (e) { return undefined }`
CatchSwallow(object, r, depth, parent) ==
    IF r.ok
    THEN Outcome(Emit(r.st, Ev("return", object, parent, depth, <<>>, <<r.out>>)), TRUE, r.out)
    ELSE Outcome(Emit(r.st, Ev("return", object, parent, depth, <<>>, <<Undefined>>)),
                 TRUE, Undefined)

\* a catch that does not wrap an error that is a ConstructionError already
CatchNoRewrap(object, r, depth, parent) ==
    IF r.ok
    THEN Outcome(Emit(r.st, Ev("return", object, parent, depth, <<>>, <<r.out>>)), TRUE, r.out)
    ELSE LET e == IF r.out.type = "ConstructionError" THEN r.out
                  ELSE ConstructionError(object, r.out)
         IN Outcome(Emit(r.st, Ev("throw", object, parent, depth, <<>>, <<e>>)), FALSE, e)

\* `catch (e) { throw new ConstructionError(object, e) }`
Catch(object, r, depth, parent) ==
    IF r.ok
    THEN Outcome(Emit(r.st, Ev("return", object, parent, depth, <<>>, <<r.out>>)), TRUE, r.out)
    ELSE LET e == ConstructionError(object, r.out)
         IN Outcome(Emit(r.st, Ev("throw", object, parent, depth, <<>>, <<e>>)), FALSE, e)

\* DIContainer.construct
construct(object, st, depth, parent, bad, graph) ==
    Catch(object,
          Resolve(object, Emit(st, Ev("enter", object, parent, depth, <<>>, <<>>)),
                  depth, parent, bad, graph),
          depth, parent)

\* ----------------------------------------------------------------- calls
\* the two callers of construct
Callers == {1, 2}

\* one activation of construct(key): pc is the statement it is at,
\*   "check"     before `this.instances.has(object)`
\*   "provider"  before `this.providers.get(key)()`
\*   "deps"      in the map over the declared dependencies, at index i,
\*               and then before `new object(...dependencies)`
\*   "store"     before `this.add(key, instance)`, val = <<instance>>
Frame(key, pc, i, args, val) ==
    [key |-> key, pc |-> pc, i |-> i, args |-> args, val |-> val]

\* a caller: not calling ("idle"), in construct(key) ("running"), or back
\* from it ("done") with a value (ok) or an error in out. missed: the
\* cache check of the outermost construct found no entry. invoked: the
\* keys whose constructor or provider this call has invoked, in order.
Caller(state, key, bad, stack, missed, invoked, ok, out) ==
    [state |-> state, key |-> key, bad |-> bad, stack |-> stack,
     missed |-> missed, invoked |-> invoked, ok |-> ok, out |-> out]

IdleCaller == Caller("idle", "", "none", <<>>, FALSE, <<>>, TRUE, <<>>)

NoSteps ==
    /\ calls = [t \in Callers |-> IdleCaller]
    /\ mode = "atomic"
    /\ writes = [k \in Keys |-> <<>>]

\* ---------------------------------------------------------------- actions
Call(op, key, val, fn, ok, out) ==
    [op |-> op, key |-> key, val |-> val, fn |-> fn, ok |-> ok, out |-> out]

NoCall == Call("new", "", <<>>, "", TRUE, <<>>)

\* the container a chained call returns (`return this`)
This == Value("container", "DIContainer", 0, <<>>)

\* the container at the start of a call
Container ==
    [instances |-> instances, providers |-> providers, nextId |-> nextId, log |-> <<>>]

\* what the code running under a key does in one call: nothing fails
\* ("none"), or the constructor / provider of one key throws
Failing == Keys \cup {"none"}

\* the events of tr of the given kinds about key k, in order
EventsOf(tr, kinds, k) == SelectSeq(tr, LAMBDA e : e.ev \in kinds /\ e.key = k)

Range(s) == {s[i] : i \in 1..Len(s)}

\* instances produced by k's constructor in tr
BuiltIn(tr, k) == {e.out[1] : e \in Range(EventsOf(tr, {"new"}, k))}

\* outcomes of the invocations of k's provider in tr, in order
FiredIn(tr, k) ==
    LET es == EventsOf(tr, {"provider", "providerThrow"}, k)
    IN [i \in 1..Len(es) |-> [ok |-> es[i].ev = "provider", out |-> es[i].out[1]]]

\* values handed out for k in tr: returned by construct(k), or passed to a
\* constructor in the position where its class declares k
DeliveredIn(tr, k, graph) ==
    {e.out[1] : e \in Range(EventsOf(tr, {"return"}, k))}
    \cup {e.args[j] : <<e, j>> \in
            {<<e, j>> \in Range(tr) \X (1..2) :
                /\ e.ev \in {"new", "newThrow"}
                /\ j <= Len(e.args)
                /\ j <= Len(DeclaredDependencies(e.key, graph))
                /\ DeclaredDependencies(e.key, graph)[j] = k}}

Init ==
    /\ deps \in Graphs
    /\ instances = EmptyMap
    /\ providers = EmptyMap
    /\ nextId = 1
    /\ last = NoCall
    /\ trace = <<>>
    /\ ops = 0
    /\ built = [k \in Keys |-> {}]
    /\ fired = [k \in Keys |-> <<>>]
    /\ delivered = [k \in Keys |-> {}]
    /\ registered = [k \in Keys |-> <<>>]
    /\ NoSteps

\* container.add(key, value)
Add(key, value) ==
    /\ ops < MaxOps
    /\ LET st == add(Container, key, value)
       IN /\ instances' = st.instances
          /\ providers' = st.providers
          /\ nextId' = st.nextId
          /\ trace' = st.log
    /\ last' = Call("add", key, <<value>>, "", TRUE, <<This>>)
    /\ ops' = ops + 1
    /\ registered' = [k \in DOMAIN registered |->
                         IF k = key THEN <<value>> ELSE registered[k]]
    /\ delivered' = [k \in DOMAIN delivered |->
                        IF k = key THEN {} ELSE delivered[k]]
    /\ UNCHANGED <<deps, built, fired, stepVars>>

\* container.provide(key, fn)
Provide(key, fn) ==
    /\ ops < MaxOps
    /\ LET st == provide(Container, key, fn)
       IN /\ instances' = st.instances
          /\ providers' = st.providers
          /\ nextId' = st.nextId
          /\ trace' = st.log
    /\ last' = Call("provide", key, <<>>, fn, TRUE, <<This>>)
    /\ ops' = ops + 1
    /\ fired' = [k \in DOMAIN fired |-> IF k = key THEN <<>> ELSE fired[k]]
    /\ UNCHANGED <<deps, built, delivered, registered, stepVars>>

\* container.construct(object); bad is the key whose user code throws
Construct(object, bad) ==
    /\ ops < MaxOps
    /\ LET r == construct(object, Container, 1, "caller", bad, deps)
       IN /\ instances' = r.st.instances
          /\ providers' = r.st.providers
          /\ nextId' = r.st.nextId
          /\ trace' = r.st.log
          /\ last' = Call("construct", object, <<>>, "", r.ok, <<r.out>>)
          /\ built' = [k \in Keys |-> built[k] \cup BuiltIn(r.st.log, k)]
          /\ fired' = [k \in Keys |-> fired[k] \o FiredIn(r.st.log, k)]
          /\ delivered' = [k \in Keys |-> delivered[k] \cup DeliveredIn(r.st.log, k, deps)]
    /\ ops' = ops + 1
    /\ UNCHANGED <<deps, registered, stepVars>>

Next ==
    \/ \E key \in Keys, value \in AddValues : Add(key, value)
    \/ \E key \in Keys, fn \in ProviderFns : Provide(key, fn)
    \/ \E object \in Keys, bad \in Failing : Construct(object, bad)

Spec == Init /\ [][Next]_vars

\* ================================================================ claims
UserCode == {"provider", "providerThrow", "new", "newThrow"}

\* the call just made was construct(k)
Constructed(k) == last.op = "construct" /\ last.key = k

\* ---------------------------------------------------------------------
\* what a construct of a cached key must look like, as the outermost call
\* and as a nested call; and what construct right after add must return
C1_CacheHitStep ==
    (last'.op = "construct" /\ Has(instances, last'.key)) =>
        /\ last'.ok
        /\ last'.out = <<instances[last'.key]>>
        /\ instances' = instances
        /\ providers' = providers
        /\ \A i \in 1..Len(trace') : trace'[i].ev \notin UserCode
        /\ \A i \in 1..Len(trace') : trace'[i].ev = "enter" => i = 1
C1_NestedHitStep ==
    \A i \in 1..Len(trace') :
        LET e == trace'[i] IN
        (e.ev = "enter" /\ Has(instances, e.key)) =>
            /\ i + 2 <= Len(trace')
            /\ trace'[i + 1] = Ev("hit", e.key, e.parent, e.depth, <<>>, <<instances[e.key]>>)
            /\ trace'[i + 2] = Ev("return", e.key, e.parent, e.depth, <<>>, <<instances[e.key]>>)
C1_AddThenConstructStep ==
    (last.op = "add" /\ last'.op = "construct" /\ last'.key = last.key) =>
        last'.ok /\ last'.out = last.val

\* C1. A cache hit is terminal and pure: when the cache has an entry for k,
\* construct(k) returns exactly that entry, runs no constructor and no
\* provider (registered or not), resolves no dependency, and leaves the
\* cache and the registry as they were. add(k, v) followed by construct(k)
\* returns v.
C1_CacheHitIsPure ==
    [][C1_CacheHitStep /\ C1_NestedHitStep /\ C1_AddThenConstructStep]_vars

\* construct(k) served from the cache although k is a class that declares
\* dependencies and has a provider registered
C1_Witness ==
    \E k \in Classes :
        /\ Constructed(k) /\ last.ok
        /\ DeclaredDependencies(k, deps) # <<>>
        /\ Has(providers, k)
        /\ registered[k] = last.out
        /\ Len(trace) = 3

\* ---------------------------------------------------------------------
\* C2. At most one instance per key is ever produced by the key's
\* constructor through the default path, whatever calls are made and
\* however often the key occurs in the dependency graph.
C2_AtMostOnceConstructed == \A k \in Keys : Cardinality(built[k]) <= 1

\* one construct call reached the same key twice: it was built the first
\* time and served from the cache the second time
C2_Witness ==
    \E k \in Classes :
        /\ EventsOf(trace, {"new"}, k) # <<>>
        /\ EventsOf(trace, {"hit"}, k) # <<>>
        /\ built[k] # {}

\* ---------------------------------------------------------------------
\* C3. With no add(k, .) in between, every value the container hands out
\* for key k, as the result of construct(k) or as the argument of a
\* dependent's constructor in k's position, is one and the same instance.
C3_SingletonIdentity == \A k \in Keys : Cardinality(delivered[k]) <= 1

\* the scenario of the tests: after construct(C), construct(A) returns the
\* A that C holds and that C's B holds
C3_Witness ==
    /\ deps = GraphExample
    /\ Constructed("A") /\ last.ok
    /\ Has(instances, "C") /\ instances["C"].kind = "instance"
    /\ Len(instances["C"].args) = 2
    /\ instances["C"].args[1] = last.out[1]
    /\ instances["C"].args[2].kind = "instance"
    /\ instances["C"].args[2].args = last.out
    /\ last.out[1].kind = "instance"

\* ---------------------------------------------------------------------
\* C4 (as stated). After provide(k, fn), over repeated construct(k) calls
\* fn is invoked at most once and every construct(k) that returns a value
\* returns the result of that one invocation.
C4_ProviderInvokedAtMostOnce ==
    \A k \in Keys :
        /\ Len(fired[k]) <= 1
        /\ (Constructed(k) /\ last.ok /\ fired[k] # <<>> /\ registered[k] = <<>>) =>
               /\ fired[k][1].ok
               /\ last.out = <<fired[k][1].out>>

\* C4 (amended). After provide(k, fn), over repeated construct(k) calls at
\* most one invocation of fn returns, and fn is invoked again only when
\* every earlier invocation threw; every construct(k) that returns a value
\* returns the result of that one returning invocation, whatever the value
\* is (undefined included).
C4_ProviderReturnsAtMostOnce ==
    \A k \in Keys :
        /\ \A i \in 1..(Len(fired[k]) - 1) : ~fired[k][i].ok
        /\ (Constructed(k) /\ last.ok /\ fired[k] # <<>> /\ registered[k] = <<>>) =>
               /\ fired[k][Len(fired[k])].ok
               /\ last.out = <<fired[k][Len(fired[k])].out>>

\* a provider returning undefined fired in an earlier call, and a later
\* construct(k) was served its result from the cache
C4_Witness ==
    \E k \in Keys :
        /\ Constructed(k) /\ last.ok
        /\ Has(providers, k) /\ providers[k] = "undef"
        /\ Len(fired[k]) = 1 /\ fired[k][1].ok
        /\ last.out = <<Undefined>>
        /\ EventsOf(trace, {"hit"}, k) # <<>>

\* ---------------------------------------------------------------------
\* the value the provider of d returned in the call just made
C5_ProviderResult(d) == EventsOf(trace', {"provider"}, d)[1].out[1]
C5_OverrideStep ==
    \A i \in 1..Len(trace') :
        LET e == trace'[i]
            ds == DeclaredDependencies(e.key, deps)
        IN e.ev = "new" =>
            \A j \in 1..Len(ds) :
                (Has(providers, ds[j]) /\ ~Has(instances, ds[j])) =>
                    /\ Len(EventsOf(trace', {"provider"}, ds[j])) = 1
                    /\ EventsOf(trace', {"providerThrow"}, ds[j]) = <<>>
                    /\ j <= Len(e.args)
                    /\ e.args[j] = C5_ProviderResult(ds[j])
                    /\ Has(instances', ds[j])
                    /\ instances'[ds[j]] = C5_ProviderResult(ds[j])
                    /\ EventsOf(trace', {"new", "newThrow"}, ds[j]) = <<>>
                    /\ \A n \in 1..Len(trace') : trace'[n].parent # ds[j]

\* C5. If a provider is registered for d, the cache has no entry for d, and
\* d is a declared dependency of p, then whenever construct runs p's
\* constructor it passes the provider's result in d's position; d's own
\* constructor is not run and no dependency is resolved on d's behalf.
C5_ProviderOverrides == [][C5_OverrideStep]_vars

\* the override test: provide(A, () => 'hello, world') then construct(C);
\* C's first argument is the string, and so is the argument of C's B
C5_Witness ==
    /\ deps = GraphExample
    /\ Constructed("C") /\ last.ok
    /\ Has(providers, "A") /\ providers["A"] = "hello"
    /\ last.out[1].kind = "instance" /\ last.out[1].of = "C"
    /\ last.out[1].args[1] = HelloWorld
    /\ last.out[1].args[2].args = <<HelloWorld>>
    /\ built["A"] = {}

\* ---------------------------------------------------------------------
\* index of the "enter" event of the call that made event i
EnterOf(i) ==
    CHOOSE a \in 1..i :
        /\ trace[a].ev = "enter" /\ trace[a].key = trace[i].key
        /\ trace[a].depth = trace[i].depth
        /\ \A b \in (a + 1)..i :
              ~(trace[b].ev = "enter" /\ trace[b].key = trace[i].key
                /\ trace[b].depth = trace[i].depth)

\* C6. On the default path construct(k) resolves k's declared dependencies
\* depth-first in declared order, each one completely before the next one
\* starts and all of them before k's constructor runs, and the constructor
\* receives the resolved values in declared order.
C6_DependencyOrder ==
    \A i \in 1..Len(trace) :
        LET e == trace[i]
            ds == DeclaredDependencies(e.key, deps)
        IN e.ev \in {"new", "newThrow"} =>
            /\ \E a \in 1..i : trace[a].ev = "enter" /\ trace[a].key = e.key
                                /\ trace[a].depth = e.depth
            /\ LET seg == SubSeq(trace, EnterOf(i) + 1, i - 1)
                   kids == SelectSeq(seg, LAMBDA x :
                              x.depth = e.depth + 1 /\ x.ev \in {"enter", "return", "throw"})
               IN /\ \A n \in 1..Len(seg) : seg[n].depth > e.depth
                  /\ Len(e.args) = Len(ds)
                  /\ Len(kids) = 2 * Len(ds)
                  /\ seg # <<>> => seg[1] = kids[1] /\ seg[Len(seg)] = kids[Len(kids)]
                  /\ \A j \in 1..Len(ds) :
                        /\ kids[2 * j - 1] = Ev("enter", ds[j], e.key, e.depth + 1, <<>>, <<>>)
                        /\ kids[2 * j] = Ev("return", ds[j], e.key, e.depth + 1, <<>>, <<e.args[j]>>)

\* a constructor ran with two different resolved dependencies, the second
\* of which was itself constructed, dependencies first, during the call
C6_Witness ==
    \E i \in 1..Len(trace) : \E j \in 1..(i - 1) :
        /\ trace[i].ev = "new" /\ Len(trace[i].args) = 2
        /\ trace[i].args[1] # trace[i].args[2]
        /\ trace[j].ev = "new" /\ trace[j].depth = trace[i].depth + 1
        /\ trace[j].args # <<>>
        /\ trace[j].out = <<trace[i].args[2]>>

\* ---------------------------------------------------------------------
\* indices of the events in which user code threw
Failures == {i \in 1..Len(trace) : trace[i].ev \in {"providerThrow", "newThrow"}}

\* index of the event that ends the call entered at index a
CloseOf(a) ==
    CHOOSE c \in (a + 1)..Len(trace) :
        /\ trace[c].ev \in {"return", "throw"} /\ trace[c].depth = trace[a].depth
        /\ \A b \in (a + 1)..(c - 1) :
              ~(trace[b].ev \in {"return", "throw"} /\ trace[b].depth = trace[a].depth)

\* C7. Whenever a provider, a constructor or the resolution of a dependency
\* fails during construct(k), construct(k) returns no value: it throws a
\* ConstructionError whose message names k; when the failure came from k's
\* own constructor or provider, that error's cause is the thrown error.
C7_EveryFailureWrapped ==
    /\ \A a \in 1..Len(trace) :
          trace[a].ev = "enter" =>
            /\ \E c \in (a + 1)..Len(trace) :
                  trace[c].ev \in {"return", "throw"} /\ trace[c].depth = trace[a].depth
            /\ LET c == CloseOf(a) IN
               /\ trace[c].key = trace[a].key
               /\ \A f \in Failures : (a < f /\ f < c) =>
                    /\ trace[c].ev = "throw"
                    /\ trace[c].out[1].type = "ConstructionError"
                    /\ trace[c].out[1].message = "Error constructing " \o Reference(trace[a].key)
                    /\ (trace[f].key = trace[a].key /\ trace[f].depth = trace[a].depth)
                          => trace[c].out[1].cause = trace[f].out
    /\ (last.op = "construct" /\ Failures # {}) =>
          ~last.ok /\ last.out = trace[Len(trace)].out

\* a provider threw while it was resolved as somebody's dependency
C7_Witness ==
    /\ last.op = "construct" /\ ~last.ok
    /\ \E f \in Failures :
          /\ trace[f].ev = "providerThrow" /\ trace[f].depth >= 2
          /\ trace[f].out = <<UserError(trace[f].key)>>
    /\ last.out[1].cause[1].cause = <<UserError(trace[Len(trace) - 1].key)>>

\* ---------------------------------------------------------------------
\* the messages of the ConstructionErrors of a cause chain, outermost first
RECURSIVE Wrappers(_)
Wrappers(e) ==
    IF e.type = "ConstructionError" THEN <<e.message>> \o Wrappers(e.cause[1]) ELSE <<>>

RECURSIVE RootCause(_)
RootCause(e) == IF e.type = "ConstructionError" THEN RootCause(e.cause[1]) ELSE e

\* the keys of the calls that are running when event f happens, outermost first
PathTo(f) ==
    [d \in 1..trace[f].depth |->
        LET a == CHOOSE a \in 1..f :
                    /\ trace[a].ev = "enter" /\ trace[a].depth = d
                    /\ \A b \in (a + 1)..f : ~(trace[b].ev = "enter" /\ trace[b].depth = d)
        IN trace[a].key]

\* C8. When construct(k0) fails because of an error e raised while resolving
\* kn, reached through k0 -> k1 -> ... -> kn, the error thrown is a chain of
\* exactly n+1 ConstructionErrors naming k0, ..., kn from the outermost to
\* the innermost, and the cause of the innermost is e.
C8_NestedWrapping ==
    (last.op = "construct" /\ ~last.ok) =>
        /\ Failures # {}
        /\ LET f == CHOOSE f \in Failures : \A g \in Failures : f <= g
               path == PathTo(f)
           IN /\ Wrappers(last.out[1]) =
                    [d \in 1..Len(path) |-> "Error constructing " \o Reference(path[d])]
              /\ RootCause(last.out[1]) = trace[f].out[1]
              /\ path[1] = last.key
              /\ path[Len(path)] = trace[f].key

\* a constructor threw three levels down: C -> B -> A
C8_Witness ==
    /\ Constructed("C") /\ ~last.ok
    /\ Wrappers(last.out[1]) =
          <<"Error constructing C", "Error constructing B", "Error constructing A">>
    /\ RootCause(last.out[1]) = UserError("A")

\* ---------------------------------------------------------------------
\* m2 and m1 agree on every key but k
SameExcept(m2, m1, k) ==
    \A x \in Keys \ {k} : /\ Has(m2, x) <=> Has(m1, x)
                          /\ Has(m1, x) => m2[x] = m1[x]

C9_AddStep ==
    last'.op = "add" =>
        /\ Has(instances', last'.key)
        /\ <<instances'[last'.key]>> = last'.val
        /\ SameExcept(instances', instances, last'.key)
        /\ providers' = providers
        /\ last'.ok /\ last'.out = <<This>>
C9_RegisteredStays ==
    \A k \in Keys :
        (Constructed(k) /\ registered[k] # <<>>) => last.ok /\ last.out = registered[k]

\* C9. add(key, value) always succeeds, sets the cache entry of key to
\* value whatever was there (an entry made by construct included), changes
\* no other cache entry and nothing in the registry, and returns the
\* container; every later construct(key) returns the value registered last.
C9_AddOverwrites == [][C9_AddStep]_vars /\ []C9_RegisteredStays

\* k was built by construct, then overwritten by add, and construct(k)
\* now returns the registered value
C9_Witness ==
    \E k \in Keys :
        /\ Constructed(k) /\ last.ok
        /\ built[k] # {}
        /\ registered[k] = last.out
        /\ last.out[1] \notin built[k]

\* ---------------------------------------------------------------------
\* the step ran no constructor and no provider
C10_NothingInvoked ==
    /\ trace' = <<>>
    /\ nextId' = nextId
    /\ built' = built
    /\ \A k \in Keys : Len(fired'[k]) <= Len(fired[k])
C10_Step ==
    /\ last'.op = "construct" => providers' = providers
    /\ last'.op = "provide" =>
          /\ C10_NothingInvoked
          /\ instances' = instances
          /\ Has(providers', last'.key)
          /\ providers'[last'.key] = last'.fn
          /\ SameExcept(providers', providers, last'.key)
          /\ last'.ok /\ last'.out = <<This>>
    /\ last'.op = "add" => C10_NothingInvoked

\* C10. construct never changes the provider registry, whether it succeeds
\* or fails; provide(k, fn) invokes nothing, leaves the cache alone, changes
\* only k's registry entry and returns the container; add invokes nothing.
C10_SeparationOfEffects == [][C10_Step]_vars

\* a construct in which one provider returned and another one threw: both
\* are still registered
C10_Witness ==
    /\ last.op = "construct" /\ ~last.ok
    /\ \E k \in Keys : EventsOf(trace, {"provider"}, k) # <<>> /\ Has(providers, k)
    /\ \E k \in Keys : EventsOf(trace, {"providerThrow"}, k) # <<>> /\ Has(providers, k)

\* ---------------------------------------------------------------------
\* what one step may do to the cache
C12_Step ==
    /\ DOMAIN instances \subseteq DOMAIN instances'
    /\ last'.op = "construct" =>
          \A k \in DOMAIN instances : instances'[k] = instances[k]
    /\ \A k \in DOMAIN instances :
          instances'[k] # instances[k] => last'.op = "add" /\ last'.key = k

\* C12. The set of keys in the cache never shrinks; construct never changes
\* the value of an entry that exists, it only adds entries for absent keys;
\* only add(k, .) changes the value of k's entry.
C12_CacheMonotone == [][C12_Step]_vars

\* a construct that failed after it had stored a new entry next to an
\* entry that was there before: both are in the cache
C12_Witness ==
    /\ last.op = "construct" /\ ~last.ok
    /\ \E k \in Keys : registered[k] # <<>> /\ Has(instances, k)
                        /\ <<instances[k]>> = registered[k]
    /\ \E k \in Keys : EventsOf(trace, {"new"}, k) # <<>> /\ Has(instances, k)
                        /\ instances[k] \in built[k]

\* ---------------------------------------------------------------------
\* the first failure of the failed call just made, in its trace
C16_First(tr) ==
    CHOOSE f \in 1..Len(tr) :
        /\ tr[f].ev \in {"providerThrow", "newThrow"}
        /\ \A g \in 1..(f - 1) : tr[g].ev \notin {"providerThrow", "newThrow"}

\* the keys of the calls running when event f of tr happens, outermost first
C16_Path(tr, f) ==
    [d \in 1..tr[f].depth |->
        LET a == CHOOSE a \in 1..f :
                    /\ tr[a].ev = "enter" /\ tr[a].depth = d
                    /\ \A b \in (a + 1)..f : ~(tr[b].ev = "enter" /\ tr[b].depth = d)
        IN tr[a].key]

\* the keys whose resolution was started under the call at depth d of the
\* path to f, in order
C16_Started(tr, f, d) ==
    LET a == CHOOSE a \in 1..f :
                /\ tr[a].ev = "enter" /\ tr[a].depth = d
                /\ \A b \in (a + 1)..f : ~(tr[b].ev = "enter" /\ tr[b].depth = d)
        es == SelectSeq(SubSeq(tr, a + 1, Len(tr)),
                        LAMBDA x : x.ev = "enter" /\ x.depth = d + 1)
    IN [i \in 1..Len(es) |-> es[i].key]

C16_FailedStep ==
    (last'.op = "construct" /\ ~last'.ok) =>
        /\ \E f \in 1..Len(trace') : trace'[f].ev \in {"providerThrow", "newThrow"}
        /\ LET f == C16_First(trace')
               path == C16_Path(trace', f)
           IN /\ \A d \in 1..Len(path) : ~Has(instances', path[d])
              /\ \A i \in 1..Len(trace') :
                    trace'[i].ev = "return" =>
                        /\ Has(instances', trace'[i].key)
                        /\ <<instances'[trace'[i].key]>> = trace'[i].out
              /\ \A i \in (f + 1)..Len(trace') : trace'[i].ev = "throw"
              /\ \A d \in 1..(Len(path) - 1) :
                    LET ds == DeclaredDependencies(path[d], deps)
                        started == C16_Started(trace', f, d)
                    IN /\ started # <<>> /\ Len(started) <= Len(ds)
                       /\ started = SubSeq(ds, 1, Len(started))
                       /\ started[Len(started)] = path[d + 1]

C16_RetryStep ==
    (/\ last.op = "construct" /\ ~last.ok
     /\ last'.op = "construct" /\ last'.key = last.key) =>
        LET k == trace[C16_First(trace)].key IN
        \E i \in 1..Len(trace') : trace'[i].key = k /\ trace'[i].ev \in UserCode

C17_DependencyClosure ==
    /\ (last.op = "construct" /\ last.ok) => Has(instances, last.key)
    /\ \A k \in Classes :
          built[k] # {} =>
              \A j \in 1..Len(DeclaredDependencies(k, deps)) :
                  Has(instances, DeclaredDependencies(k, deps)[j])

\* C was built with a dependency that a provider supplied and a dependency
\* that was constructed; all of them are cached
C17_Witness ==
    /\ Constructed("C") /\ last.ok /\ built["C"] # {}
    /\ \E d \in Keys : EventsOf(trace, {"provider"}, d) # <<>>
    /\ \E d \in Keys \ {"C"} : EventsOf(trace, {"new"}, d) # <<>>

\* =====================================================================
\* ConstructionError as a function of its arguments: a key of any kind and
\* a cause are drawn, and `new ConstructionError(x, cause)` is evaluated.

\* keys that are neither classes nor symbols: null, undefined, and `{}`
OtherKeys == {"null", "undefined", "Obj"}
ErrorKeys == Keys \cup OtherKeys

\* causes: errors of user code, of the engine, and ConstructionErrors
Causes ==
    {UserError(k) : k \in Keys} \cup {NotAConstructor, StackOverflow}
    \cup {ConstructionError(k, UserError(k)) : k \in Keys}

InitError ==
    /\ deps = GraphTests
    /\ instances = EmptyMap
    /\ providers = EmptyMap
    /\ nextId = 1
    /\ \E x \in ErrorKeys, cause \in Causes : last = Call("arguments", x, <<cause>>, "", TRUE, <<>>)
    /\ trace = <<>>
    /\ ops = 0
    /\ built = [k \in Keys |-> {}]
    /\ fired = [k \in Keys |-> <<>>]
    /\ delivered = [k \in Keys |-> {}]
    /\ registered = [k \in Keys |-> <<>>]
    /\ NoSteps

\* new ConstructionError(x, cause)
NewConstructionError ==
    /\ last.op = "arguments"
    /\ last' = Call("ConstructionError", last.key, last.val, "", TRUE,
                    <<ConstructionError(last.key, last.val[1])>>)
    /\ UNCHANGED <<deps, instances, providers, nextId, trace, ops,
                   built, fired, delivered, registered, stepVars>>

NextError == NewConstructionError

SpecError == InitError /\ [][NextError]_vars

\* the reference each kind of key is to get, as the tests list them
C11_Expected(x) ==
    CASE x = "null" -> "null"
      [] x = "undefined" -> "undefined"
      [] x = "A" -> "A"
      [] x = "B" -> "B"
      [] x = "C" -> "C"
      [] x = "Sym" -> "Symbol(test)"
      [] x = "Obj" -> "[object Object]"

\* C11. The message of a ConstructionError is 'Error constructing ' followed
\* by: the literal null / undefined for such a key; else the key's name when
\* it has one (a class X gives 'X'); else the key's string form (a symbol
\* gives 'Symbol(desc)', a plain object '[object Object]'). The cause is the
\* error given.
C11_MessageReference ==
    last.op = "ConstructionError" =>
        /\ last.out[1].type = "ConstructionError"
        /\ last.out[1].message = "Error constructing " \o C11_Expected(last.key)
        /\ last.out[1].cause = last.val

\* the error made for a class key
C11_Witness ==
    /\ last.op = "ConstructionError" /\ last.key \in Classes
    /\ last.out[1].message = "Error constructing A"
    /\ last.val = <<NotAConstructor>>

\* =====================================================================
\* keys that are no classes: a symbol, a plain object, null, undefined
PlainKeys == Symbols \cup OtherKeys

InitPlain ==
    /\ deps = GraphTests
    /\ instances = EmptyMap
    /\ providers = EmptyMap
    /\ nextId = 1
    /\ last = NoCall
    /\ trace = <<>>
    /\ ops = 0
    /\ built = [k \in Keys |-> {}]
    /\ fired = [k \in Keys |-> <<>>]
    /\ delivered = [k \in Keys |-> {}]
    /\ registered = [k \in Keys |-> <<>>]
    /\ NoSteps

NextPlain ==
    \/ \E key \in PlainKeys, value \in AddValues : Add(key, value)
    \/ \E key \in PlainKeys, fn \in ProviderFns : Provide(key, fn)
    \/ \E object \in PlainKeys, bad \in PlainKeys \cup {"none"} : Construct(object, bad)

SpecPlain == InitPlain /\ [][NextPlain]_vars

C18_Step ==
    (last'.op = "construct" /\ last'.key \notin Classes) =>
        LET k == last'.key IN
        IF Has(instances, k)
        THEN /\ last'.ok /\ last'.out = <<instances[k]>>
             /\ instances' = instances /\ providers' = providers
        ELSE IF Has(providers, k)
        THEN EventsOf(trace', {"providerThrow"}, k) = <<>> =>
                /\ last'.ok
                /\ EventsOf(trace', {"provider"}, k) # <<>>
                /\ Has(instances', k) /\ last'.out = <<instances'[k]>>
        ELSE /\ ~last'.ok
             /\ last'.out[1].type = "ConstructionError"
             /\ last'.out[1].message = "Error constructing " \o C11_Expected(k)
             /\ Len(last'.out[1].cause) = 1
             /\ last'.out[1].cause[1].type = "TypeError"
             /\ instances' = instances /\ providers' = providers

GraphLoop ==
    [k \in Classes |->
        CASE k = "A" -> Deps(TRUE, <<"A">>)
          [] k = "B" -> Deps(TRUE, <<>>)
          [] k = "C" -> Deps(TRUE, <<"B", "A">>)]

GraphCycle ==
    [k \in Classes |->
        CASE k = "A" -> Deps(TRUE, <<"B">>)
          [] k = "B" -> Deps(TRUE, <<"A">>)
          [] k = "C" -> Deps(TRUE, <<"Sym", "A">>)]

CyclicGraphs == {GraphLoop, GraphCycle}

InitCycle ==
    /\ deps \in CyclicGraphs
    /\ instances = EmptyMap
    /\ providers = EmptyMap
    /\ nextId = 1
    /\ last = NoCall
    /\ trace = <<>>
    /\ ops = 0
    /\ built = [k \in Keys |-> {}]
    /\ fired = [k \in Keys |-> <<>>]
    /\ delivered = [k \in Keys |-> {}]
    /\ registered = [k \in Keys |-> <<>>]
    /\ NoSteps

SpecCycle == InitCycle /\ [][Next]_vars

\* the keys a class declares
DeclaredSet(k, graph) ==
    {DeclaredDependencies(k, graph)[j] : j \in 1..Len(DeclaredDependencies(k, graph))}

\* the keys reachable from the keys of S along declared dependencies
RECURSIVE ReachFrom(_, _)
ReachFrom(S, graph) ==
    LET T == S \cup UNION {DeclaredSet(x, graph) : x \in S}
    IN IF T = S THEN S ELSE ReachFrom(T, graph)

\* k is on a dependency cycle
OnCycle(k, graph) == k \in ReachFrom(DeclaredSet(k, graph), graph)

\* the transitive declared dependencies of k contain a cycle
ReachesCycle(k, graph) == \E j \in ReachFrom({k}, graph) : OnCycle(j, graph)

\* the deepest call of the trace
C14_Deepest(tr) ==
    IF tr = <<>> THEN 0
    ELSE LET i == CHOOSE i \in 1..Len(tr) : \A j \in 1..Len(tr) : tr[j].depth <= tr[i].depth
         IN tr[i].depth

\* the claim as stated, for a key k that is itself unresolved: construct(k)
\* of a key that reaches a cycle never returns a value
C14_CycleNeverReturns ==
    [][(/\ last'.op = "construct" /\ ReachesCycle(last'.key, deps)
        /\ ~Has(instances, last'.key) /\ ~Has(providers, last'.key))
       => ~last'.ok]_vars

C14_Step ==
    (/\ last'.op = "construct" /\ ReachesCycle(last'.key, deps)
     /\ \A j \in ReachFrom({last'.key}, deps) :
           ~Has(instances, j) /\ ~Has(providers, j)) =>
        /\ ~last'.ok
        /\ last'.out[1].type = "ConstructionError"
        /\ \A j \in Keys : OnCycle(j, deps) => ~Has(instances', j)
        /\ \/ /\ RootCause(last'.out[1]) = StackOverflow
              /\ C14_Deepest(trace') = MaxDepth
           \/ \E i \in 1..Len(trace') :
                 /\ trace'[i].ev = "newThrow"
                 /\ ~OnCycle(trace'[i].key, deps)
                 /\ RootCause(last'.out[1]) = trace'[i].out[1]

\* C14 (amended). For a key k whose transitive declared dependencies contain
\* a cycle, when no key reachable from k has a cache entry or a provider,
\* construct(k) never returns a value: unless the constructor of a
\* dependency outside the cycle throws first, it recurses until the stack
\* is exhausted and throws a ConstructionError whose root cause is the
\* engine's RangeError; no key of the cycle gets a cache entry.
C14_NoCycleDetection == [][C14_Step]_vars

\* construct(C) built B, entered the cycle at A and ran out of stack
C14_Witness ==
    /\ deps = GraphLoop
    /\ Constructed("C") /\ ~last.ok
    /\ RootCause(last.out[1]) = StackOverflow
    /\ C14_Deepest(trace) = MaxDepth
    /\ Has(instances, "B") /\ ~Has(instances, "A")
\* =====================================================================
\* construct followed statement by statement, for two callers
StepGraphs == {GraphExample, GraphLoop}

\* the registries the calls start with: empty, or after provide(A, fresh)
StepProviders == {EmptyMap, [k \in {"A"} |-> "fresh"]}

InitStep ==
    /\ deps \in StepGraphs
    /\ instances = EmptyMap
    /\ providers \in StepProviders
    /\ nextId = 1
    /\ last = NoCall
    /\ trace = <<>>
    /\ ops = 0
    /\ built = [k \in Keys |-> {}]
    /\ fired = [k \in Keys |-> <<>>]
    /\ delivered = [k \in Keys |-> {}]
    /\ registered = [k \in Keys |-> <<>>]
    /\ calls = [t \in Callers |-> IdleCaller]
    /\ mode \in {"atomic", "preempt"}
    /\ writes = [k \in Keys |-> <<>>]

Top(c) == c.stack[Len(c.stack)]

SetTop(c, f) == [c EXCEPT !.stack = [@ EXCEPT ![Len(@)] = f]]

\* the error thrown to the caller when e is thrown in the top frame: every
\* frame's catch wraps it on the way out
RECURSIVE Unwind(_, _)
Unwind(stack, e) ==
    IF stack = <<>> THEN e
    ELSE Unwind(SubSeq(stack, 1, Len(stack) - 1),
                ConstructionError(stack[Len(stack)].key, e))

\* the top frame returns v: to the frame below, whose map goes on with the
\* next dependency, or to the caller
Returned(c, v) ==
    LET rest == SubSeq(c.stack, 1, Len(c.stack) - 1)
    IN IF rest = <<>>
       THEN [c EXCEPT !.state = "done", !.stack = <<>>, !.ok = TRUE, !.out = <<v>>]
       ELSE [c EXCEPT !.stack =
                [rest EXCEPT ![Len(rest)] =
                    [@ EXCEPT !.args = Append(@, v), !.i = @ + 1]]]

\* e is thrown in the top frame
Thrown(c, e) ==
    [c EXCEPT !.state = "done", !.stack = <<>>, !.ok = FALSE,
              !.out = <<Unwind(c.stack, e)>>]

\* caller t calls container.construct(object)
Begin(t, object, bad) ==
    /\ calls[t].state = "idle"
    /\ mode = "atomic" => \A u \in Callers : calls[u].state # "running"
    /\ calls' = [calls EXCEPT ![t] =
                    Caller("running", object, bad,
                           <<Frame(object, "check", 1, <<>>, <<>>)>>,
                           FALSE, <<>>, TRUE, <<>>)]
    /\ UNCHANGED <<deps, instances, providers, nextId, last, trace, ops,
                   built, fired, delivered, registered, mode, writes>>

\* `if (this.instances.has(object)) return this.instances.get(object);
\*  else if (this.providers.has(object)) ... else ...`
Check(t) ==
    /\ calls[t].state = "running"
    /\ Top(calls[t]).pc = "check"
    /\ LET c == calls[t]
           f == Top(c)
           c1 == [c EXCEPT !.missed = IF Len(c.stack) = 1
                                      THEN ~Has(instances, f.key) ELSE @]
       IN calls' = [calls EXCEPT ![t] =
            IF Has(instances, f.key) THEN Returned(c1, Get(instances, f.key))
            ELSE IF Has(providers, f.key) THEN SetTop(c1, [f EXCEPT !.pc = "provider"])
            ELSE SetTop(c1, [f EXCEPT !.pc = "deps"])]
    /\ UNCHANGED <<deps, instances, providers, nextId, last, trace, ops,
                   built, fired, delivered, registered, mode, writes>>

\* `this.providers.get(key)()`
CallProvider(t) ==
    /\ calls[t].state = "running"
    /\ Top(calls[t]).pc = "provider"
    /\ LET c == [calls[t] EXCEPT !.invoked = Append(@, Top(calls[t]).key)]
           f == Top(c)
           fn == Get(providers, f.key)
           instance == Invoke(fn, nextId)
       IN IF f.key = c.bad
          THEN /\ calls' = [calls EXCEPT ![t] = Thrown(c, UserError(f.key))]
               /\ fired' = [fired EXCEPT ![f.key] =
                               Append(@, [ok |-> FALSE, out |-> UserError(f.key)])]
               /\ UNCHANGED nextId
          ELSE /\ calls' = [calls EXCEPT ![t] =
                               SetTop(c, [f EXCEPT !.pc = "store", !.val = <<instance>>])]
               /\ fired' = [fired EXCEPT ![f.key] =
                               Append(@, [ok |-> TRUE, out |-> instance])]
               /\ nextId' = IF fn = "fresh" THEN nextId + 1 ELSE nextId
    /\ UNCHANGED <<deps, instances, providers, last, trace, ops,
                   built, delivered, registered, mode, writes>>

\* the next element of `.map((x) => this.construct(x))`: construct is
\* called for the i-th declared dependency
Descend(t) ==
    /\ calls[t].state = "running"
    /\ Top(calls[t]).pc = "deps"
    /\ Top(calls[t]).i <= Len(DeclaredDependencies(Top(calls[t]).key, deps))
    /\ LET c == calls[t]
           f == Top(c)
           x == DeclaredDependencies(f.key, deps)[f.i]
       IN calls' = [calls EXCEPT ![t] =
            IF Len(c.stack) + 1 > MaxDepth THEN Thrown(c, StackOverflow)
            ELSE [c EXCEPT !.stack = Append(@, Frame(x, "check", 1, <<>>, <<>>))]]
    /\ UNCHANGED <<deps, instances, providers, nextId, last, trace, ops,
                   built, fired, delivered, registered, mode, writes>>

\* `new object(...dependencies)`, all dependencies resolved
Instantiate(t) ==
    /\ calls[t].state = "running"
    /\ Top(calls[t]).pc = "deps"
    /\ Top(calls[t]).i > Len(DeclaredDependencies(Top(calls[t]).key, deps))
    /\ LET c == [calls[t] EXCEPT !.invoked = Append(@, Top(calls[t]).key)]
           f == Top(c)
           n == New(f.key, f.args, Container, Len(c.stack), "caller", c.bad)
       IN IF n.ok
          THEN /\ calls' = [calls EXCEPT ![t] =
                               SetTop(c, [f EXCEPT !.pc = "store", !.val = <<n.out>>])]
               /\ nextId' = n.st.nextId
               /\ built' = [built EXCEPT ![f.key] = @ \cup {n.out}]
          ELSE /\ calls' = [calls EXCEPT ![t] = Thrown(c, n.out)]
               /\ UNCHANGED <<nextId, built>>
    /\ UNCHANGED <<deps, instances, providers, last, trace, ops,
                   fired, delivered, registered, mode, writes>>

\* the statement `this.add(key, instance)` left out: only `return instance`
StoreNoAdd(t) ==
    /\ calls[t].state = "running"
    /\ Top(calls[t]).pc = "store"
    /\ calls' = [calls EXCEPT ![t] = Returned(calls[t], Top(calls[t]).val[1])]
    /\ UNCHANGED <<deps, instances, providers, nextId, last, trace, ops,
                   built, fired, delivered, registered, mode, writes>>

\* `this.add(key, instance); return instance;`
Store(t) ==
    /\ calls[t].state = "running"
    /\ Top(calls[t]).pc = "store"
    /\ LET c == calls[t]
           f == Top(c)
       IN /\ instances' = add(Container, f.key, f.val[1]).instances
          /\ writes' = [writes EXCEPT ![f.key] = Append(@, f.val[1])]
          /\ calls' = [calls EXCEPT ![t] = Returned(c, f.val[1])]
    /\ UNCHANGED <<deps, providers, nextId, last, trace, ops,
                   built, fired, delivered, registered, mode>>

\* the next statement of caller t's call
Run(t) ==
    \/ Check(t)
    \/ CallProvider(t)
    \/ Descend(t)
    \/ Instantiate(t)
    \/ Store(t)

NextStep ==
    \/ \E t \in Callers, object \in Keys, bad \in Failing : Begin(t, object, bad)
    \/ \E t \in Callers : Check(t)
    \/ \E t \in Callers : CallProvider(t)
    \/ \E t \in Callers : Descend(t)
    \/ \E t \in Callers : Instantiate(t)
    \/ \E t \in Callers : Store(t)

SpecStep == InitStep /\ [][NextStep]_vars

\* a call that has begun keeps executing
SpecStepFair == SpecStep /\ \A t \in Callers : WF_vars(Run(t))
\* ---------------------------------------------------------------------
NoDuplicates(seq) == \A i, j \in 1..Len(seq) : i # j => seq[i] # seq[j]

\* what holds of a call of construct(k) when the graph reachable from k has
\* no cycle: no key's constructor or provider is invoked twice, only
\* reachable keys are touched, the recursion is never deeper than the
\* number of reachable keys, and the call ends with a value or with a
\* ConstructionError naming k that does not come from an exhausted stack
C13_Call(t) ==
    LET c == calls[t]
        reach == ReachFrom({c.key}, deps)
    IN (c.state # "idle" /\ ~ReachesCycle(c.key, deps)) =>
        /\ NoDuplicates(c.invoked)
        /\ \A i \in 1..Len(c.invoked) : c.invoked[i] \in reach
        /\ Len(c.stack) <= Cardinality(reach)
        /\ \A d \in 1..Len(c.stack) : c.stack[d].key \in reach
        /\ c.state = "done" =>
              /\ Len(c.out) = 1
              /\ IF c.ok THEN "kind" \in DOMAIN c.out[1]
                 ELSE /\ c.out[1].type = "ConstructionError"
                      /\ c.out[1].message = "Error constructing " \o Reference(c.key)
                      /\ RootCause(c.out[1]) # StackOverflow

\* C13. When the declared-dependency graph reachable from k has no cycle, a
\* call of construct(k) that has begun ends: it returns a value or throws a
\* ConstructionError, and on the way it invokes the constructor or provider
\* of each reachable key at most once.
C13_Termination ==
    /\ [](\A t \in Callers : C13_Call(t))
    /\ \A t \in Callers :
          (calls[t].state = "running" /\ ~ReachesCycle(calls[t].key, deps))
              ~> (calls[t].state = "done")

\* construct(C) has returned after it invoked the constructors of A, B and
\* C, each once, A being declared by both B and C
C13_Witness ==
    /\ deps = GraphExample
    /\ \E t \in Callers :
          /\ calls[t].state = "done" /\ calls[t].key = "C" /\ calls[t].ok
          /\ calls[t].invoked = <<"A", "B", "C">>

\* ---------------------------------------------------------------------
\* two calls of construct(k) for the same key have both returned a value
C15_Pair(t, u) ==
    /\ t # u
    /\ calls[t].state = "done" /\ calls[u].state = "done"
    /\ calls[t].key = calls[u].key
    /\ calls[t].ok /\ calls[u].ok

\* C15. When two calls of construct(k) for the same unresolved key have
\* both made the cache check before either stored its result, k's
\* constructor (or provider) has run twice, the callers have the two values
\* stored (two different instances when a constructor made them), and the
\* cache holds the one stored last; this happens only when the statements
\* of the calls interleave: of two calls that run to completion one after
\* the other, the second is served from the cache and both return the same
\* value.
C15_UnguardedRace ==
    \A t, u \in Callers :
        C15_Pair(t, u) =>
            LET k == calls[t].key
                a == calls[t].out[1]
                b == calls[u].out[1]
            IN IF calls[t].missed /\ calls[u].missed
               THEN /\ mode = "preempt"
                    /\ Len(writes[k]) = 2
                    /\ {a, b} = {writes[k][1], writes[k][2]}
                    /\ Has(instances, k) /\ instances[k] = writes[k][2]
                    /\ IF Has(providers, k)
                       THEN Len(fired[k]) = 2 /\ fired[k][1].ok /\ fired[k][2].ok
                       ELSE Cardinality(built[k]) = 2 /\ a # b
               ELSE /\ a = b
                    /\ Len(writes[k]) = 1
                    /\ Has(instances, k) /\ instances[k] = a
                    /\ Cardinality(built[k]) + Len(fired[k]) = 1
                    /\ mode = "atomic" => ~(calls[t].missed /\ calls[u].missed)

\* both callers built their own C, the cache holds the one stored last,
\* and the caller that stored first holds another instance
C15_Witness ==
    /\ mode = "preempt"
    /\ C15_Pair(1, 2)
    /\ calls[1].key = "C"
    /\ calls[1].missed /\ calls[2].missed
    /\ calls[1].out # calls[2].out
    /\ Cardinality(built["C"]) = 2
    /\ instances["C"] = calls[2].out[1]
    /\ writes["C"] = <<calls[1].out[1], calls[2].out[1]>>
====
